---- MODULE Spec2Model ----
(***************************************************************************)
(* Model of pdf_transaction_parser.py: the line tokenizer                  *)
(* (extract_transaction_data), the statement parser (parse_pdf), the       *)
(* validator (validate_transactions) and the driver (main).                *)
(*                                                                         *)
(* A Python str is a sequence of one-character strings, so that split,     *)
(* strip, replace, join, Decimal(str) and str(Decimal) are computed and    *)
(* not assumed.  Python's 0-based index i is the model's index i + 1.      *)
(***************************************************************************)
EXTENDS Integers, Sequences, FiniteSets, TLC

\* ------------------------------------------------------------------------
\* Bounds of the model
\* ------------------------------------------------------------------------
MaxTokens == 4      \* tokens per line in the tokenizer specification
MaxPages  == 2      \* pages of the document
MaxLines  == 3      \* lines read from the document, over all pages
MaxRecs   == 3      \* records handed to the validator

\* ------------------------------------------------------------------------
\* Python str and list helpers
\* ------------------------------------------------------------------------
Digit == {"0", "1", "2", "3", "4", "5", "6", "7", "8", "9"}

Whitespace == {" ", "\t"}

DigitVal(c) ==
  CASE c = "0" -> 0 [] c = "1" -> 1 [] c = "2" -> 2 [] c = "3" -> 3
    [] c = "4" -> 4 [] c = "5" -> 5 [] c = "6" -> 6 [] c = "7" -> 7
    [] c = "8" -> 8 [] c = "9" -> 9

DigitChar(n) ==
  CASE n = 0 -> "0" [] n = 1 -> "1" [] n = 2 -> "2" [] n = 3 -> "3"
    [] n = 4 -> "4" [] n = 5 -> "5" [] n = 6 -> "6" [] n = 7 -> "7"
    [] n = 8 -> "8" [] n = 9 -> "9"

Lower(c) ==
  CASE c = "A" -> "a" [] c = "E" -> "e" [] c = "F" -> "f" [] c = "I" -> "i"
    [] c = "N" -> "n" [] c = "S" -> "s" [] c = "T" -> "t" [] c = "Y" -> "y"
    [] OTHER -> c

LowerSeq(s) == [i \in 1..Len(s) |-> Lower(s[i])]

MinOf(S) == CHOOSE x \in S : \A y \in S : x <= y

MaxOf(S) == CHOOSE x \in S : \A y \in S : y <= x

Zeros(n) == [i \in 1..n |-> "0"]

AllDigits(s) == \A i \in 1..Len(s) : s[i] \in Digit

\* str.replace(c, "")
RemoveChar(s, c) == SelectSeq(s, LAMBDA x : x # c)

\* str.strip()
Strip(s) ==
  LET keep == {i \in 1..Len(s) : s[i] \notin Whitespace}
  IN  IF keep = {} THEN <<>> ELSE SubSeq(s, MinOf(keep), MaxOf(keep))

\* first index of c in s, 0 when absent
IndexOf(s, c) ==
  LET at == {i \in 1..Len(s) : s[i] = c}
  IN  IF at = {} THEN 0 ELSE MinOf(at)

RECURSIVE SplitFrom(_, _, _, _)
SplitFrom(s, i, cur, acc) ==
  IF i > Len(s)
  THEN IF cur = <<>> THEN acc ELSE Append(acc, cur)
  ELSE IF s[i] \in Whitespace
       THEN SplitFrom(s, i + 1, <<>>, IF cur = <<>> THEN acc ELSE Append(acc, cur))
       ELSE SplitFrom(s, i + 1, Append(cur, s[i]), acc)

\* str.split(): the maximal runs of non-whitespace characters
Split(s) == SplitFrom(s, 1, <<>>, <<>>)

RECURSIVE Join(_)
\* ' '.join(parts)
Join(parts) ==
  IF parts = <<>> THEN <<>>
  ELSE IF Len(parts) = 1 THEN parts[1]
  ELSE parts[1] \o <<" ">> \o Join(Tail(parts))

RECURSIVE ToNat(_)
ToNat(ds) ==
  IF ds = <<>> THEN 0
  ELSE ToNat(SubSeq(ds, 1, Len(ds) - 1)) * 10 + DigitVal(ds[Len(ds)])

RECURSIVE FromNat(_)
FromNat(n) ==
  IF n < 10 THEN <<DigitChar(n)>>
  ELSE FromNat(n \div 10) \o <<DigitChar(n % 10)>>

RECURSIVE Pow10(_)
Pow10(n) == IF n = 0 THEN 1 ELSE 10 * Pow10(n - 1)

\* the digits without leading zeros; "0" for an all-zero or empty string
StripZeros(ds) ==
  LET nz == {i \in 1..Len(ds) : ds[i] # "0"}
  IN  IF nz = {} THEN <<"0">> ELSE SubSeq(ds, MinOf(nz), Len(ds))

\* Python's None where a str is expected (no str is equal to it)
NoneStr == <<"None">>

\* ------------------------------------------------------------------------
\* decimal.Decimal under the default context
\*   Context(prec=28, rounding=ROUND_HALF_EVEN, Emin=-999999, Emax=999999,
\*           traps=[InvalidOperation, DivisionByZero, Overflow])
\* A value is [k, s, ds, e]: kind, sign, coefficient digits, exponent.
\* ------------------------------------------------------------------------
prec == 28

Emax == 999999

Emin == -999999

Etiny == Emin - prec + 1

Dec(k, s, ds, e) == [k |-> k, s |-> s, ds |-> ds, e |-> e]

\* Decimal(str) raised InvalidOperation (ConversionSyntax)
Invalid == Dec("invalid", 0, <<>>, 0)

\* Python's None where a Decimal is expected
NoneDec == Dec("none", 0, <<>>, 0)

ParseNumber(sg, body) ==
  LET epos    == IndexOf(body, "e")
      mant    == IF epos = 0 THEN body ELSE SubSeq(body, 1, epos - 1)
      expo    == IF epos = 0 THEN <<>> ELSE SubSeq(body, epos + 1, Len(body))
      dpos    == IndexOf(mant, ".")
      ip      == IF dpos = 0 THEN mant ELSE SubSeq(mant, 1, dpos - 1)
      fp      == IF dpos = 0 THEN <<>> ELSE SubSeq(mant, dpos + 1, Len(mant))
      esigned == expo # <<>> /\ expo[1] \in {"+", "-"}
      edigits == IF esigned THEN Tail(expo) ELSE expo
      ok      == /\ AllDigits(ip)
                 /\ AllDigits(fp)
                 /\ Len(ip) + Len(fp) > 0
                 /\ epos = 0 \/ (edigits # <<>> /\ AllDigits(edigits))
      ev      == IF epos = 0 THEN 0
                 ELSE IF esigned /\ expo[1] = "-" THEN 0 - ToNat(edigits)
                 ELSE ToNat(edigits)
  IN  IF ok THEN Dec("fin", sg, StripZeros(ip \o fp), ev - Len(fp)) ELSE Invalid

\* the diagnostic digits of a NaN, without leading zeros
NanDiag(ds) == IF StripZeros(ds) = <<"0">> THEN <<>> ELSE StripZeros(ds)

\* the unsigned part of the literal, in lower case
ParseBody(sg, body) ==
  CASE body \in {<<"i", "n", "f">>, <<"i", "n", "f", "i", "n", "i", "t", "y">>}
         -> Dec("inf", sg, <<"0">>, 0)
    [] /\ Len(body) >= 3
       /\ SubSeq(body, 1, 3) = <<"n", "a", "n">>
       /\ AllDigits(SubSeq(body, 4, Len(body)))
         -> Dec("nan", sg, NanDiag(SubSeq(body, 4, Len(body))), 0)
    [] /\ Len(body) >= 4
       /\ SubSeq(body, 1, 4) = <<"s", "n", "a", "n">>
       /\ AllDigits(SubSeq(body, 5, Len(body)))
         -> Dec("snan", sg, NanDiag(SubSeq(body, 5, Len(body))), 0)
    [] OTHER -> ParseNumber(sg, body)

ParseSigned(t) ==
  IF t # <<>> /\ t[1] \in {"+", "-"}
  THEN ParseBody(IF t[1] = "-" THEN 1 ELSE 0, LowerSeq(Tail(t)))
  ELSE ParseBody(0, LowerSeq(t))

\* Decimal(str): surrounding whitespace and underscores are dropped, then
\*   [+-]? ( digits [. digits] [E [+-] digits] | Inf[inity] | [s]NaN digits )
\* case-insensitively; anything else raises InvalidOperation.
DecParse(str) == ParseSigned(RemoveChar(Strip(str), "_"))

\* str(Decimal): scientific notation as Decimal.__str__ writes it
DecStr(d) ==
  LET sgn == IF d.s = 1 THEN <<"-">> ELSE <<>>
      n   == Len(d.ds)
      leftdigits == d.e + n
      dotplace   == IF d.e <= 0 /\ leftdigits > -6 THEN leftdigits ELSE 1
      intpart    == IF dotplace <= 0 THEN <<"0">>
                    ELSE IF dotplace >= n THEN d.ds \o Zeros(dotplace - n)
                    ELSE SubSeq(d.ds, 1, dotplace)
      fracpart   == IF dotplace <= 0 THEN <<".">> \o Zeros(0 - dotplace) \o d.ds
                    ELSE IF dotplace >= n THEN <<>>
                    ELSE <<".">> \o SubSeq(d.ds, dotplace + 1, n)
      ex         == leftdigits - dotplace
      exppart    == IF ex = 0 THEN <<>>
                    ELSE IF ex < 0 THEN <<"E", "-">> \o FromNat(0 - ex)
                    ELSE <<"E", "+">> \o FromNat(ex)
  IN  CASE d.k = "inf"  -> sgn \o <<"I", "n", "f", "i", "n", "i", "t", "y">>
        [] d.k = "nan"  -> sgn \o <<"N", "a", "N">> \o d.ds
        [] d.k = "snan" -> sgn \o <<"s", "N", "a", "N">> \o d.ds
        [] d.k = "fin"  -> sgn \o intpart \o fracpart \o exppart

IsNaN(d) == d.k \in {"nan", "snan"}

IsZero(d) == d.k = "fin" /\ d.ds = <<"0">>

Adjusted(d) == d.e + Len(d.ds) - 1

\* -1, 0, 1: the sign of the value of a non-NaN decimal
SignOf(d) == IF IsZero(d) THEN 0 ELSE IF d.s = 1 THEN -1 ELSE 1

\* the order of the magnitudes of two finite nonzero decimals
MagCmp(a, b) ==
  IF Adjusted(a) # Adjusted(b)
  THEN IF Adjusted(a) < Adjusted(b) THEN "lt" ELSE "gt"
  ELSE LET n    == IF Len(a.ds) > Len(b.ds) THEN Len(a.ds) ELSE Len(b.ds)
           pa   == a.ds \o Zeros(n - Len(a.ds))
           pb   == b.ds \o Zeros(n - Len(b.ds))
           diff == {i \in 1..n : pa[i] # pb[i]}
       IN  IF diff = {} THEN "eq"
           ELSE IF DigitVal(pa[MinOf(diff)]) < DigitVal(pb[MinOf(diff)]) THEN "lt"
           ELSE "gt"

\* The ordering comparisons a < b, a > b of two Decimals: "lt", "eq" or "gt";
\* with a NaN operand they signal InvalidOperation, which the context traps.
DecCmp(a, b) ==
  IF IsNaN(a) \/ IsNaN(b) THEN "InvalidOperation"
  ELSE IF SignOf(a) # SignOf(b)
       THEN IF SignOf(a) < SignOf(b) THEN "lt" ELSE "gt"
  ELSE IF SignOf(a) = 0 THEN "eq"
  ELSE LET m == IF a.k = "inf" THEN (IF b.k = "inf" THEN "eq" ELSE "gt")
                ELSE IF b.k = "inf" THEN "lt"
                ELSE MagCmp(a, b)
       IN  IF SignOf(a) = 1 THEN m
           ELSE IF m = "lt" THEN "gt" ELSE IF m = "gt" THEN "lt" ELSE "eq"

\* The outcome of an arithmetic operation: sig is "ok" or the name of the
\* trapped signal that is raised; inexact is the context's Inexact flag
\* (nonzero digits were rounded away).
Ok(v, ix) == [sig |-> "ok", val |-> v, inexact |-> ix]

Raise(name) == [sig |-> name, val |-> Invalid, inexact |-> FALSE]

\* Decimal._fix for a coefficient of at most prec digits and e >= Etiny
Fix(s, ds, e, ix) ==
  IF ds = <<"0">>
  THEN Ok(Dec("fin", s, ds, IF e > Emax THEN Emax ELSE e), ix)
  ELSE IF e + Len(ds) - 1 > Emax THEN Raise("Overflow")
  ELSE Ok(Dec("fin", s, ds, e), ix)

\* x rounded to prec digits when everything rounded away is below half a
\* unit in the last place: the coefficient of x padded to prec digits
Padded(x, ix) ==
  Fix(x.s, x.ds \o Zeros(prec - Len(x.ds)), x.e - (prec - Len(x.ds)), ix)

\* a + b for finite a, b whose coefficients, aligned at exponent lo, have at
\* most 9 digits: the exact sum r
ExactSum(a, b, lo, r) ==
  Fix(IF r < 0 THEN 1
      ELSE IF r > 0 THEN 0
      ELSE IF a.s = 1 /\ b.s = 1 THEN 1 ELSE 0,
      FromNat(IF r < 0 THEN 0 - r ELSE r), lo, FALSE)

\* the coefficient of x at exponent lo, with its sign
Aligned(x, lo) == (IF x.s = 1 THEN -1 ELSE 1) * ToNat(x.ds) * Pow10(x.e - lo)

\* a + b for finite a, b, rounded to the context.  Defined where the aligned
\* coefficients have at most 9 digits (exact result) and where one operand
\* lies wholly below the precision of the other; TLC stops on any other
\* operands.
FinAdd(a, b, lo) ==
  CASE Len(a.ds) + (a.e - lo) <= 9 /\ Len(b.ds) + (b.e - lo) <= 9 /\ lo >= Etiny
         -> ExactSum(a, b, lo, Aligned(a, lo) + Aligned(b, lo))
    [] Len(a.ds) + (a.e - lo) > 9 /\ IsZero(b) /\ b.e < a.e - prec - 1
                                  /\ Len(a.ds) <= prec
         -> Padded(a, FALSE)
    [] Len(b.ds) + (b.e - lo) > 9 /\ IsZero(a) /\ a.e < b.e - prec - 1
                                  /\ Len(b.ds) <= prec
         -> Padded(b, FALSE)
    [] Len(a.ds) + (a.e - lo) > 9 /\ ~IsZero(b)
                                  /\ Adjusted(b) <= Adjusted(a) - prec - 2
                                  /\ Len(a.ds) <= prec
         -> Padded(a, TRUE)
    [] Len(b.ds) + (b.e - lo) > 9 /\ ~IsZero(a)
                                  /\ Adjusted(a) <= Adjusted(b) - prec - 2
                                  /\ Len(b.ds) <= prec
         -> Padded(b, TRUE)

\* a - b for finite a, b: a + (-b)
FinSub(a, b) ==
  FinAdd(a, [b EXCEPT !.s = 1 - b.s], IF a.e < b.e THEN a.e ELSE b.e)

\* a - b
DecSub(a, b) ==
  CASE a.k = "snan" \/ b.k = "snan" -> Raise("InvalidOperation")
    [] a.k = "nan" -> Ok(a, FALSE)
    [] a.k # "snan" /\ a.k # "nan" /\ b.k = "nan" -> Ok(b, FALSE)
    [] a.k = "inf" /\ b.k = "inf" ->
         IF a.s = b.s THEN Raise("InvalidOperation") ELSE Ok(a, FALSE)
    [] a.k = "inf" /\ b.k = "fin" -> Ok(a, FALSE)
    [] a.k = "fin" /\ b.k = "inf" -> Ok([b EXCEPT !.s = 1 - b.s], FALSE)
    [] a.k = "fin" /\ b.k = "fin" -> FinSub(a, b)

\* abs(x) of the outcome of an operation
DecAbs(r) ==
  IF r.sig # "ok" \/ IsNaN(r.val) THEN r
  ELSE [r EXCEPT !.val.s = 0]

\* ------------------------------------------------------------------------
\* is_numeric, clean_amount, is_date, extract_transaction_data
\* ------------------------------------------------------------------------
is_numeric(value) ==
  LET cleaned_value == Strip(RemoveChar(RemoveChar(value, ","), "'"))
  IN  IF cleaned_value # <<>>
      THEN DecParse(cleaned_value) # Invalid
      ELSE FALSE

clean_amount(value) == Strip(RemoveChar(RemoveChar(value, "'"), ","))

is_date(text) ==
  /\ Len(text) = 8
  /\ \A i \in {1, 2, 4, 5, 7, 8} : text[i] \in Digit
  /\ text[3] = "."
  /\ text[6] = "."

RECURSIVE ScanDown(_, _, _)
\* the loops at lines 49-53 and 62-68: the first numeric token met going
\* down from index i to index lo; 0 when there is none
ScanDown(parts, i, lo) ==
  IF i < lo THEN 0
  ELSE IF is_numeric(parts[i]) THEN i
  ELSE ScanDown(parts, i - 1, lo)

\* Mutant of BalanceIndex: the scan runs from the start of the line
BalanceIndexFirst(parts) ==
  IF {i \in 1..Len(parts) : is_numeric(parts[i])} = {} THEN 0
  ELSE MinOf({i \in 1..Len(parts) : is_numeric(parts[i])})

\* lines 46-53: the index of the balance token, 0 when no token is numeric
BalanceIndex(parts) == ScanDown(parts, Len(parts), 1)

\* Mutant of AmountIndex: the scan runs upward from the token after the date
AmountIndexUp(parts, balance_index) ==
  IF {i \in 2..(balance_index - 1) : is_numeric(parts[i])} = {} THEN 0
  ELSE MinOf({i \in 2..(balance_index - 1) : is_numeric(parts[i])})

\* lines 59-68: the index of the amount token, 0 when there is none
\* (range(balance_index - 1, 0, -1) stops above the date token)
AmountIndex(parts, balance_index) == ScanDown(parts, balance_index - 1, 2)

\* extract_transaction_data returned None
NoFields ==
  [date |-> NoneStr, description |-> NoneStr, amount |-> NoneStr, balance |-> NoneStr]

\* lines 70-79
ExtractFields(parts, balance_index, amount_index) ==
  [date        |-> parts[1],
   description |-> Strip(Join(IF amount_index > 0
                              THEN SubSeq(parts, 2, amount_index - 1)
                              ELSE SubSeq(parts, 2, balance_index - 1))),
   amount      |-> IF amount_index > 0 THEN clean_amount(parts[amount_index])
                   ELSE NoneStr,
   balance     |-> clean_amount(parts[balance_index])]

\* lines 55-79
ExtractBalance(parts, balance_index) ==
  IF balance_index = 0 \/ clean_amount(parts[balance_index]) = <<>>
  THEN NoFields
  ELSE ExtractFields(parts, balance_index, AmountIndex(parts, balance_index))

\* lines 38-79
ExtractParts(parts) ==
  IF Len(parts) < 3 THEN NoFields
  ELSE IF ~is_date(parts[1]) THEN NoFields
  ELSE ExtractBalance(parts, BalanceIndex(parts))

extract_transaction_data(line) == ExtractParts(Split(line))

\* ------------------------------------------------------------------------
\* The body of parse_pdf's loop over lines (lines 105-136)
\* ------------------------------------------------------------------------
Txn(date, description, debit, credit, balance) ==
  [Date |-> date, Description |-> description, Debit |-> debit,
   Credit |-> credit, Balance |-> balance]

NoTxn == Txn(NoneStr, NoneStr, NoneStr, NoneStr, NoneStr)

\* Mutant of Classify: an equal balance counts as a credit (>= for >)
ClassifyGe(current_balance, prev_balance, amount) ==
  IF prev_balance # NoneDec /\ amount # NoneDec
  THEN IF DecCmp(current_balance, prev_balance) = "InvalidOperation"
       THEN [raised |-> TRUE, debit |-> <<>>, credit |-> <<>>]
       ELSE IF DecCmp(current_balance, prev_balance) \in {"gt", "eq"}
       THEN [raised |-> FALSE, debit |-> <<>>, credit |-> DecStr(amount)]
       ELSE [raised |-> FALSE, debit |-> DecStr(amount), credit |-> <<>>]
  ELSE [raised |-> FALSE, debit |-> <<>>, credit |-> <<>>]

\* Mutant of Classify: the else is missing, the debit is always written
ClassifyNoElse(current_balance, prev_balance, amount) ==
  IF prev_balance # NoneDec /\ amount # NoneDec
  THEN IF DecCmp(current_balance, prev_balance) = "InvalidOperation"
       THEN [raised |-> TRUE, debit |-> <<>>, credit |-> <<>>]
       ELSE IF DecCmp(current_balance, prev_balance) = "gt"
       THEN [raised |-> FALSE, debit |-> DecStr(amount), credit |-> DecStr(amount)]
       ELSE [raised |-> FALSE, debit |-> DecStr(amount), credit |-> <<>>]
  ELSE [raised |-> FALSE, debit |-> <<>>, credit |-> <<>>]

\* lines 114-121: raised is the InvalidOperation of a comparison with NaN
Classify(current_balance, prev_balance, amount) ==
  IF prev_balance # NoneDec /\ amount # NoneDec
  THEN LET c == DecCmp(current_balance, prev_balance)
       IN  IF c = "InvalidOperation"
           THEN [raised |-> TRUE, debit |-> <<>>, credit |-> <<>>]
           ELSE IF c = "gt"
           THEN [raised |-> FALSE, debit |-> <<>>, credit |-> DecStr(amount)]
           ELSE [raised |-> FALSE, debit |-> DecStr(amount), credit |-> <<>>]
  ELSE [raised |-> FALSE, debit |-> <<>>, credit |-> <<>>]

\* The outcomes of one iteration of the loop: "rejected" (the tokenizer
\* returned None), "failed" (an exception was caught at line 134), "emitted".
LineSkipped(outcome, prev_balance) ==
  [outcome |-> outcome, transaction |-> NoTxn, prev_balance |-> prev_balance]

\* Mutant of LineEmit: prev_balance is not updated after the record
LineEmitStale(transaction_data, current_balance, dc, prev_balance) ==
  IF dc.raised THEN LineSkipped("failed", prev_balance)
  ELSE [outcome      |-> "emitted",
        transaction  |-> Txn(transaction_data.date, transaction_data.description,
                             dc.debit, dc.credit, transaction_data.balance),
        prev_balance |-> prev_balance]

\* lines 123-132
LineEmit(transaction_data, current_balance, dc, prev_balance) ==
  IF dc.raised THEN LineSkipped("failed", prev_balance)
  ELSE [outcome      |-> "emitted",
        transaction  |-> Txn(transaction_data.date, transaction_data.description,
                             dc.debit, dc.credit, transaction_data.balance),
        prev_balance |-> current_balance]

\* lines 110-132, current_balance and amount being the results of Decimal()
LineValues(transaction_data, current_balance, amount, prev_balance) ==
  IF current_balance = Invalid \/ amount = Invalid
  THEN LineSkipped("failed", prev_balance)
  ELSE LineEmit(transaction_data, current_balance,
                Classify(current_balance, prev_balance, amount), prev_balance)

\* lines 107-132
LineFields(transaction_data, prev_balance) ==
  IF transaction_data = NoFields
  THEN LineSkipped("rejected", prev_balance)
  ELSE LineValues(transaction_data,
                  DecParse(transaction_data.balance),
                  IF transaction_data.amount # NoneStr /\ transaction_data.amount # <<>>
                  THEN DecParse(transaction_data.amount)
                  ELSE NoneDec,
                  prev_balance)

\* Mutant of AppendTransaction: the record is put at the front of the list
PrependTransaction(list, transaction) == <<transaction>> \o list

\* line 131: transactions.append(transaction)
AppendTransaction(list, transaction) == Append(list, transaction)

\* One iteration of the loop (lines 105-136)
LineStep(line, prev_balance) ==
  LineFields(extract_transaction_data(line), prev_balance)

\* ------------------------------------------------------------------------
\* The body of validate_transactions' loop (lines 150-188)
\* ------------------------------------------------------------------------
\* lines 167-173 and 175-184, balance_diff being abs(current - prev) and c
\* the order of current_balance and prev_balance; raised is "" or the name
\* of the exception raised
BackfillWith(balance_diff, c, debit, credit) ==
  IF balance_diff.sig # "ok"
  THEN [raised |-> balance_diff.sig, debit |-> debit, credit |-> credit]
  ELSE IF debit = <<>> /\ credit = <<>>
  THEN IF c = "InvalidOperation"
       THEN [raised |-> c, debit |-> debit, credit |-> credit]
       ELSE IF c = "lt"
       THEN [raised |-> "", debit |-> DecStr(balance_diff.val), credit |-> <<>>]
       ELSE IF c = "gt"
       THEN [raised |-> "", debit |-> <<>>, credit |-> DecStr(balance_diff.val)]
       ELSE [raised |-> "", debit |-> debit, credit |-> credit]
  ELSE [raised |-> "", debit |-> debit, credit |-> credit]

\* lines 164-173: the Debit/Credit of a record
Backfill(current_balance, prev_balance, debit, credit) ==
  IF prev_balance # NoneDec
  THEN BackfillWith(DecAbs(DecSub(current_balance, prev_balance)),
                    DecCmp(current_balance, prev_balance), debit, credit)
  ELSE [raised |-> "", debit |-> debit, credit |-> credit]

\* The outcomes of one iteration of the loop: "dropped" (line 157, or an
\* InvalidOperation or ValueError caught at line 186), "kept", or "raised"
\* (an exception that line 186 does not catch leaves validate_transactions).
Dropped(prev_balance) ==
  [outcome |-> "dropped", transaction |-> NoTxn, prev_balance |-> prev_balance,
   exc |-> ""]

\* lines 175-188
ValidateEmit(date, description, balance, current_balance, bf, prev_balance) ==
  IF bf.raised = "InvalidOperation" THEN Dropped(prev_balance)
  ELSE IF bf.raised # ""
  THEN [outcome |-> "raised", transaction |-> NoTxn, prev_balance |-> prev_balance,
        exc |-> bf.raised]
  ELSE [outcome      |-> "kept",
        transaction  |-> Txn(date, description, bf.debit, bf.credit, balance),
        prev_balance |-> current_balance,
        exc          |-> ""]

\* lines 159-188, current_balance being the result of Decimal(balance)
ValidateBalance(date, description, balance, current_balance, debit, credit, prev_balance) ==
  IF current_balance = Invalid THEN Dropped(prev_balance)
  ELSE ValidateEmit(date, description, balance, current_balance,
                    Backfill(current_balance, prev_balance, debit, credit),
                    prev_balance)

\* Mutant of ValidateFields: a record dropped as incomplete still sets
\* prev_balance
ValidateFieldsTrack(date, description, balance, debit, credit, prev_balance) ==
  IF date = <<>> \/ description = <<>> \/ balance = <<>>
  THEN Dropped(IF balance # <<>> /\ DecParse(balance) # Invalid
               THEN DecParse(balance) ELSE prev_balance)
  ELSE ValidateBalance(date, description, balance, DecParse(balance), debit, credit,
                       prev_balance)

\* Mutant of ValidateFields: an empty Description does not drop the record
ValidateFieldsKeepBlank(date, description, balance, debit, credit, prev_balance) ==
  IF date = <<>> \/ balance = <<>> THEN Dropped(prev_balance)
  ELSE ValidateBalance(date, description, balance, DecParse(balance), debit, credit,
                       prev_balance)

\* lines 156-188
ValidateFields(date, description, balance, debit, credit, prev_balance) ==
  IF date = <<>> \/ description = <<>> \/ balance = <<>> THEN Dropped(prev_balance)
  ELSE ValidateBalance(date, description, balance, DecParse(balance), debit, credit,
                       prev_balance)

\* line 183: validated_transactions.append(validated_transaction)
AppendValidated(list, transaction) == Append(list, transaction)

\* One iteration of the loop (lines 150-188)
ValidateStep(transaction, prev_balance) ==
  ValidateFields(Strip(transaction.Date), Strip(transaction.Description),
                 Strip(transaction.Balance), Strip(transaction.Debit),
                 Strip(transaction.Credit), prev_balance)

\* ------------------------------------------------------------------------
\* Inputs
\* ------------------------------------------------------------------------
tDate == <<"0", "1", ".", "0", "2", ".", "2", "4">>

tWord == <<"A">>

\* the tokens of the lines given to the tokenizer alone
TokTokens ==
  { tDate, tWord, <<"5">>, <<"7">>, <<"1", ",", "0">>, <<"1", ".", "2", ".", "3">>, <<"'">> }

TokLines ==
  { Join(ts) : ts \in UNION { [1..n -> TokTokens] : n \in 0..MaxTokens } }

\* the lines a page of the document can hold
PageLines ==
  { Join(<<tDate, tWord, <<"5">>>>),
    Join(<<tDate, tWord, <<"2">>, <<"7">>>>),
    Join(<<tDate, tWord, <<"+", "1", ",", "0">>, <<"5", ".", "0">>>>),
    Join(<<tDate, tWord, <<"N", "a", "N">>>>),
    Join(<<tDate, tWord, <<"1", "E", "1", "0", "0", "0", "0", "0", "0">>>>),
    Join(<<tWord, tDate, <<"5">>>>) }

\* the records validate_transactions can be given: any str in every field
RecUniverse ==
  { Txn(tDate, tWord, <<>>, <<>>, <<"5">>),
    Txn(tDate, <<" ", "A", " ">>, <<>>, <<>>, <<" ", "5", ".", "0", " ">>),
    Txn(tDate, tWord, <<>>, <<>>, <<"7">>),
    Txn(tDate, tWord, <<" ", "5">>, <<>>, <<"3">>),
    Txn(tDate, tWord, <<>>, <<"5">>, <<"7">>),
    Txn(tDate, tWord, <<>>, <<>>, <<"N", "a", "N">>),
    Txn(tDate, tWord, <<"5">>, <<>>, <<"N", "a", "N">>),
    Txn(tDate, tWord, <<>>, <<>>, <<"1", "E", "3", "0">>),
    Txn(tDate, tWord, <<>>, <<>>, <<"x">>),
    Txn(tDate, <<" ">>, <<>>, <<>>, <<"7">>),
    Txn(tDate, tWord, <<>>, <<>>, <<"I", "n", "f">>),
    Txn(tDate, tWord, <<>>, <<>>, <<"1", "E", "1", "0", "0", "0", "0", "0", "0">>) }

RecSeqs == UNION { [1..n -> RecUniverse] : n \in 0..MaxRecs }

\* ------------------------------------------------------------------------
\* State
\* ------------------------------------------------------------------------
VARIABLES
  pc,            \* where the run is: "start", "pages", "lines", "validate",
                 \* "save", "done", "aborted"; "tokenize", "tokenized"
  exc,           \* the exception that ended the run, "" when none
  numPages,      \* len(pdf.pages)
  pageNo,        \* page_num
  consumed,      \* history: the lines read so far, [page, text], in order
  transactions,  \* the list parse_pdf builds and validate_transactions reads
  origin,        \* history: per transaction, the index in consumed of its
                 \* line and prev_balance when the line was read
  prev_balance,  \* parse_pdf's prev_balance
  v_idx,         \* index of the next transaction validate_transactions reads
  v_prev,        \* validate_transactions' prev_balance
  validated,     \* validated_transactions
  kept,          \* history: per validated transaction, the index in
                 \* transactions of its record and v_prev when it was read
  pass,          \* 1, or 2 when validate_transactions runs on its own output
  first,         \* history: input and output of the first pass
  saved,         \* the number of calls of save_transactions
  line,          \* the line given to extract_transaction_data
  fields         \* its result

vars == <<pc, exc, numPages, pageNo, consumed, transactions, origin, prev_balance,
          v_idx, v_prev, validated, kept, pass, first, saved, line, fields>>

parseVars == <<numPages, pageNo, consumed, transactions, origin, prev_balance>>

validateVars == <<v_idx, v_prev, validated, kept, pass, first>>

tokVars == <<line, fields>>

NoPass == [input |-> <<>>, output |-> <<>>]

Blank ==
  /\ exc = ""
  /\ numPages = 0
  /\ pageNo = 0
  /\ consumed = <<>>
  /\ origin = <<>>
  /\ prev_balance = NoneDec
  /\ v_idx = 1
  /\ v_prev = NoneDec
  /\ validated = <<>>
  /\ kept = <<>>
  /\ pass = 1
  /\ first = NoPass
  /\ saved = 0
  /\ fields = NoFields

\* main is about to run
Init ==
  /\ pc = "start"
  /\ Blank
  /\ transactions = <<>>
  /\ line = <<>>

Abort(name) == pc' = "aborted" /\ exc' = name

\* lines 86-92: the path is missing, the document cannot be opened, or it
\* has no page; otherwise the loop over the pages starts (prev_balance = None)
OpenPdf ==
  /\ pc = "start"
  /\ \/ Abort("FileNotFoundError") /\ UNCHANGED numPages
     \/ Abort("unreadable") /\ UNCHANGED numPages
     \/ Abort("ValueError") /\ numPages' = 0
     \/ \E n \in 1..MaxPages : pc' = "pages" /\ numPages' = n /\ exc' = exc
  /\ pageNo' = 0
  /\ prev_balance' = NoneDec
  /\ UNCHANGED <<consumed, transactions, origin, validateVars, saved, tokVars>>

\* lines 96-103: the next page; without text it is skipped, with text its
\* lines are read (text.split('\n') has at least one line); extract_text
\* may raise, which nothing inside parse_pdf handles
NextPage ==
  /\ pc = "pages"
  /\ pageNo < numPages
  /\ pageNo' = pageNo + 1
  /\ \/ pc' = "pages" /\ exc' = exc
     \/ Len(consumed) < MaxLines /\ pc' = "lines" /\ exc' = exc
     \/ Abort("unreadable")
  /\ UNCHANGED <<numPages, consumed, transactions, origin, prev_balance,
                 validateVars, saved, tokVars>>

\* lines 104-136: one line of the page
ProcessLine ==
  /\ pc = "lines"
  /\ Len(consumed) < MaxLines
  /\ \E text \in PageLines :
       LET r == LineStep(text, prev_balance)
       IN  /\ consumed' = Append(consumed, [page |-> pageNo, text |-> text])
           /\ prev_balance' = r.prev_balance
           /\ IF r.outcome = "emitted"
              THEN /\ transactions' = AppendTransaction(transactions, r.transaction)
                   /\ origin' = Append(origin, [line |-> Len(consumed) + 1,
                                                prev |-> prev_balance])
              ELSE UNCHANGED <<transactions, origin>>
  /\ UNCHANGED <<pc, exc, numPages, pageNo, validateVars, saved, tokVars>>

\* the lines of the page are exhausted
EndPage ==
  /\ pc = "lines"
  /\ consumed # <<>>
  /\ consumed[Len(consumed)].page = pageNo
  /\ pc' = "pages"
  /\ UNCHANGED <<exc, parseVars, validateVars, saved, tokVars>>

\* line 142 and line 213: parse_pdf returns, validate_transactions starts
ReturnTransactions ==
  /\ pc = "pages"
  /\ pageNo = numPages
  /\ pc' = "validate"
  /\ v_idx' = 1
  /\ v_prev' = NoneDec
  /\ validated' = <<>>
  /\ kept' = <<>>
  /\ UNCHANGED <<exc, parseVars, pass, first, saved, tokVars>>

\* lines 149-188: one record
ValidateRecord ==
  /\ pc = "validate"
  /\ v_idx <= Len(transactions)
  /\ LET r == ValidateStep(transactions[v_idx], v_prev)
     IN  /\ v_prev' = r.prev_balance
         /\ IF r.outcome = "kept"
            THEN /\ validated' = AppendValidated(validated, r.transaction)
                 /\ kept' = Append(kept, [rec |-> v_idx, prev |-> v_prev])
            ELSE UNCHANGED <<validated, kept>>
         /\ IF r.outcome = "raised"
            THEN Abort(r.exc) /\ v_idx' = v_idx
            ELSE v_idx' = v_idx + 1 /\ UNCHANGED <<pc, exc>>
  /\ UNCHANGED <<parseVars, pass, first, saved, tokVars>>

\* line 190 and line 217: validate_transactions returns to main
ReturnValidated ==
  /\ pc = "validate"
  /\ v_idx > Len(transactions)
  /\ pc' = "save"
  /\ UNCHANGED <<exc, parseVars, validateVars, saved, tokVars>>

\* lines 192-200: save_transactions writes the file or raises
SaveTransactions ==
  /\ pc = "save"
  /\ saved' = saved + 1
  /\ \/ pc' = "done" /\ exc' = exc
     \/ Abort("OSError")
  /\ UNCHANGED <<parseVars, validateVars, tokVars>>

Next ==
  \/ OpenPdf
  \/ NextPage
  \/ ProcessLine
  \/ EndPage
  \/ ReturnTransactions
  \/ ValidateRecord
  \/ ReturnValidated
  \/ SaveTransactions

\* main (lines 202-221)
Spec == Init /\ [][Next]_vars

\* ------------------------------------------------------------------------
\* validate_transactions on any list of records, then on its own output
\* ------------------------------------------------------------------------
InitV ==
  /\ pc = "validate"
  /\ Blank
  /\ transactions \in RecSeqs
  /\ line = <<>>

\* validate_transactions is called again, on the list it returned
Revalidate ==
  /\ pc = "validate"
  /\ v_idx > Len(transactions)
  /\ pass = 1
  /\ pass' = 2
  /\ first' = [input |-> transactions, output |-> validated]
  /\ transactions' = validated
  /\ v_idx' = 1
  /\ v_prev' = NoneDec
  /\ validated' = <<>>
  /\ kept' = <<>>
  /\ UNCHANGED <<pc, exc, numPages, pageNo, consumed, origin, prev_balance,
                 saved, tokVars>>

NextV == ValidateRecord \/ Revalidate

SpecV == InitV /\ [][NextV]_vars

\* ------------------------------------------------------------------------
\* extract_transaction_data on any line
\* ------------------------------------------------------------------------
InitT ==
  /\ pc = "tokenize"
  /\ Blank
  /\ transactions = <<>>
  /\ line \in TokLines

Tokenize ==
  /\ pc = "tokenize"
  /\ fields' = extract_transaction_data(line)
  /\ pc' = "tokenized"
  /\ UNCHANGED <<exc, parseVars, validateVars, saved, line>>

NextT == Tokenize

SpecT == InitT /\ [][NextT]_vars

\* ------------------------------------------------------------------------
\* Properties
\* ------------------------------------------------------------------------
\* the indices of the tokens that is_numeric accepts
NumericAt(parts) == {i \in 1..Len(parts) : is_numeric(parts[i])}

\* the line transaction i of parse_pdf was read from
LineOf(i) == consumed[origin[i].line].text

NonEmpty(s) == s # <<>>

\* C1: in parse_pdf, for every emitted record: with a known previous balance
\* and an amount on the line, Credit is the amount and Debit is empty when
\* the current balance is greater than the previous one, and Debit is the
\* amount and Credit is empty otherwise (an equal balance is a debit);
\* without a previous balance or without an amount both are empty.  The
\* amount is the Decimal parse_pdf parses, written by str().
C1_DebitCreditByBalanceDirection ==
  \A i \in DOMAIN origin :
    LET f == extract_transaction_data(LineOf(i))
        c == DecCmp(DecParse(f.balance), origin[i].prev)
        t == transactions[i]
    IN  IF origin[i].prev # NoneDec /\ f.amount # NoneStr
        THEN /\ c \in {"lt", "eq", "gt"}
             /\ c = "gt" => t.Credit = DecStr(DecParse(f.amount)) /\ t.Debit = <<>>
             /\ c # "gt" => t.Debit = DecStr(DecParse(f.amount)) /\ t.Credit = <<>>
        ELSE t.Debit = <<>> /\ t.Credit = <<>>

\* a record whose balance equals the previous balance was emitted as a debit,
\* and one with a greater balance as a credit
C1_Witness ==
  /\ \E i \in DOMAIN origin :
       /\ origin[i].prev # NoneDec
       /\ DecCmp(DecParse(transactions[i].Balance), origin[i].prev) = "eq"
       /\ NonEmpty(transactions[i].Debit)
  /\ \E i \in DOMAIN origin :
       /\ origin[i].prev # NoneDec
       /\ DecCmp(DecParse(transactions[i].Balance), origin[i].prev) = "gt"
       /\ NonEmpty(transactions[i].Credit)

\* the kept record j of validate_transactions, as it was given
InputOf(j) == transactions[kept[j].rec]

\* str is abs(current - prev), exactly
IsAbsDiff(str, current, prev) ==
  /\ DecAbs(DecSub(current, prev)).sig = "ok"
  /\ ~DecAbs(DecSub(current, prev)).inexact
  /\ str = DecStr(DecAbs(DecSub(current, prev)).val)

\* C2: in validate_transactions, for every kept record with a previous kept
\* balance and Debit and Credit both empty on input, the output Debit is
\* |current - previous| (Credit empty) if current < previous, the output
\* Credit is |current - previous| (Debit empty) if current > previous, and
\* both stay empty if they are equal; a record with exactly one of Debit and
\* Credit populated, and the first kept record, keep their Debit and Credit
\* (surrounding whitespace aside).
C2_BackfillIsBalanceDelta ==
  \A j \in DOMAIN kept :
    LET in  == InputOf(j)
        out == validated[j]
        cur == DecParse(in.Balance)
        c   == DecCmp(cur, kept[j].prev)
    IN  IF kept[j].prev # NoneDec /\ in.Debit = <<>> /\ in.Credit = <<>>
        THEN /\ c = "lt" => IsAbsDiff(out.Debit, cur, kept[j].prev) /\ out.Credit = <<>>
             /\ c = "gt" => IsAbsDiff(out.Credit, cur, kept[j].prev) /\ out.Debit = <<>>
             /\ c = "eq" => out.Debit = <<>> /\ out.Credit = <<>>
        ELSE (kept[j].prev = NoneDec \/ in.Debit = <<>> \/ in.Credit = <<>>)
               => out.Debit = Strip(in.Debit) /\ out.Credit = Strip(in.Credit)

\* C3: every record parse_pdf emits, and every record validate_transactions
\* returns for them, has an empty Debit or an empty Credit.
C3_AtMostOneOfDebitCredit ==
  /\ \A i \in DOMAIN transactions :
       transactions[i].Debit = <<>> \/ transactions[i].Credit = <<>>
  /\ \A j \in DOMAIN validated :
       validated[j].Debit = <<>> \/ validated[j].Credit = <<>>

\* parse_pdf classified an amount and validate_transactions backfilled one
C3_Witness ==
  /\ pc = "save"
  /\ \E i \in DOMAIN transactions :
       NonEmpty(transactions[i].Debit) \/ NonEmpty(transactions[i].Credit)
  /\ \E j \in DOMAIN kept :
       /\ InputOf(j).Debit = <<>>
       /\ InputOf(j).Credit = <<>>
       /\ NonEmpty(validated[j].Debit) \/ NonEmpty(validated[j].Credit)

\* C4: validate_transactions run on its own output returns it unchanged: no
\* record is dropped and no field is changed.
C4_ValidatorIdempotent ==
  pass = 2 =>
    /\ pc = "validate"
    /\ transactions = first.output
    /\ validated = SubSeq(transactions, 1, v_idx - 1)

\* the second run is over, after a first run that dropped a record and
\* repaired another
C4_Witness ==
  /\ pass = 2
  /\ v_idx > Len(transactions)
  /\ Len(first.output) >= 2
  /\ Len(first.input) > Len(first.output)
  /\ \E j \in DOMAIN first.output :
       \A i \in DOMAIN first.input : first.input[i] # first.output[j]

\* C5: the records of parse_pdf follow the order of the lines they were read
\* from (pages in order, lines in order within a page), each line giving at
\* most one record, and the records of validate_transactions follow the
\* order of the records they were made from, each giving at most one.
C5_OrderPreserved ==
  /\ Len(origin) = Len(transactions)
  /\ \A k, l \in DOMAIN consumed : k < l => consumed[k].page <= consumed[l].page
  /\ \A i \in DOMAIN origin :
       /\ origin[i].line \in DOMAIN consumed
       /\ LineStep(LineOf(i), origin[i].prev).transaction = transactions[i]
  /\ \A i, j \in DOMAIN origin : i < j => origin[i].line < origin[j].line
  /\ Len(kept) = Len(validated)
  /\ \A j \in DOMAIN kept :
       /\ kept[j].rec \in DOMAIN transactions
       /\ ValidateStep(InputOf(j), kept[j].prev).transaction = validated[j]
  /\ \A i, j \in DOMAIN kept : i < j => kept[i].rec < kept[j].rec

\* two records from different pages are validated, a line between them gave
\* no record, and their balances differ
C5_Witness ==
  /\ pc = "save"
  /\ Len(validated) >= 2
  /\ Len(consumed) > Len(transactions)
  /\ consumed[origin[kept[1].rec].line].page < consumed[origin[kept[2].rec].line].page
  /\ origin[kept[2].rec].line > origin[kept[1].rec].line + 1
  /\ validated[1].Balance # validated[2].Balance

\* C6, as claimed: the Balance of an accepted line is one of the tokens of
\* the line, the rightmost one that parses as a number.
C6_BalanceIsLineToken ==
  (pc = "tokenized" /\ fields # NoFields) =>
    /\ NumericAt(Split(line)) # {}
    /\ fields.balance = Split(line)[MaxOf(NumericAt(Split(line)))]

\* C6, amended: the Balance of an accepted line is the rightmost token of the
\* line that parses as a number, with its grouping separators (comma,
\* apostrophe) removed.
C6_BalanceIsNormalizedToken ==
  (pc = "tokenized" /\ fields # NoFields) =>
    /\ NumericAt(Split(line)) # {}
    /\ fields.balance =
         RemoveChar(RemoveChar(Split(line)[MaxOf(NumericAt(Split(line)))], ","), "'")

\* a line with two numeric tokens, the rightmost with a grouping separator,
\* was accepted
C6_Witness ==
  /\ pc = "tokenized"
  /\ fields # NoFields
  /\ Cardinality(NumericAt(Split(line))) >= 2
  /\ \E k \in DOMAIN Split(line)[MaxOf(NumericAt(Split(line)))] :
       Split(line)[MaxOf(NumericAt(Split(line)))][k] = ","

\* the tokens between the date and the balance that is_numeric accepts
AmountCandidates(parts) ==
  {i \in NumericAt(parts) : 2 <= i /\ i < MaxOf(NumericAt(parts))}

\* C7: for a line of at least 3 tokens that starts with a date and has a
\* numeric token, the amount is the normalized token at the largest index
\* between the date and the balance (both excluded) that looks numeric, and
\* it is absent exactly when there is no such token.
C7_AmountIsNearestNumericBelowBalance ==
  (/\ pc = "tokenized"
   /\ Len(Split(line)) >= 3
   /\ is_date(Split(line)[1])
   /\ NumericAt(Split(line)) # {}) =>
    /\ fields # NoFields
    /\ fields.amount = NoneStr <=> AmountCandidates(Split(line)) = {}
    /\ AmountCandidates(Split(line)) # {} =>
         fields.amount = clean_amount(Split(line)[MaxOf(AmountCandidates(Split(line)))])

\* the scan passed over a malformed token and took the numeric token below it
C7_Witness ==
  /\ pc = "tokenized"
  /\ fields # NoFields
  /\ fields.amount # NoneStr
  /\ \E i \in AmountCandidates(Split(line)) :
       /\ i + 1 < MaxOf(NumericAt(Split(line)))
       /\ i = MaxOf(AmountCandidates(Split(line)))
       /\ ~is_numeric(Split(line)[i + 1])
       /\ \E k \in DOMAIN Split(line)[i + 1] : Split(line)[i + 1][k] = "."

FatalErrors == {"FileNotFoundError", "ValueError", "unreadable"}

\* C8: save_transactions is called at most once and only after parse_pdf and
\* validate_transactions have completed; after a fatal failure (missing
\* path, zero-page document, unreadable document) it is never called; and a
\* failure on a line or on a record never aborts the run.
C8_SaveOnceAndOnlyFatalAborts ==
  /\ saved <= 1
  /\ saved = 1 => /\ pc \in {"done", "aborted"}
                  /\ pageNo = numPages
                  /\ numPages > 0
                  /\ v_idx > Len(transactions)
  /\ (pc = "aborted" /\ exc \in FatalErrors) => saved = 0
  /\ pc = "aborted" => exc \in FatalErrors \/ (exc = "OSError" /\ saved = 1)

\* C9: parse_pdf's prev_balance is None until a record is emitted and is
\* afterwards the balance of the record emitted last, whatever lines were
\* rejected or failed and whatever pages began since.
C9_PrevBalanceIsLastEmitted ==
  prev_balance = IF transactions = <<>> THEN NoneDec
                 ELSE DecParse(transactions[Len(transactions)].Balance)

\* on a later page than the last record, a line the tokenizer accepted gave
\* no record
C9_Witness ==
  /\ transactions # <<>>
  /\ Len(consumed) > origin[Len(origin)].line
  /\ consumed[Len(consumed)].page > consumed[origin[Len(origin)].line].page
  /\ extract_transaction_data(consumed[Len(consumed)].text) # NoFields

\* C10: every record validate_transactions returns has a non-empty Date,
\* Description and Balance, and one whose Debit and Credit are both empty is
\* the first of the output or has the balance of the record before it in the
\* output; prev_balance is the balance of the last kept record.
C10_ValidatedComplete ==
  /\ \A j \in DOMAIN validated :
       /\ NonEmpty(Strip(validated[j].Date))
       /\ NonEmpty(Strip(validated[j].Description))
       /\ NonEmpty(Strip(validated[j].Balance))
       /\ (validated[j].Debit = <<>> /\ validated[j].Credit = <<>>) =>
            \/ j = 1
            \/ DecCmp(DecParse(validated[j].Balance),
                      DecParse(validated[j - 1].Balance)) = "eq"
  /\ v_prev = IF validated = <<>> THEN NoneDec
              ELSE DecParse(validated[Len(validated)].Balance)

\* a record with an equal balance, written differently, was kept with both
\* fields empty after a record between the two was dropped
C10_Witness ==
  \E j \in DOMAIN validated :
    /\ j > 1
    /\ validated[j].Debit = <<>>
    /\ validated[j].Credit = <<>>
    /\ validated[j].Balance # validated[j - 1].Balance
    /\ kept[j].rec > kept[j - 1].rec + 1

====
